---- MODULE Spec2Model ----
(***************************************************************************)
(* A model of plugins/inventory/nova.py, the OpenStack (novaclient)        *)
(* external inventory script: the helpers push, to_safe, get_ips and       *)
(* get_metadata, and the module-level mode dispatch (list mode, host mode, *)
(* usage).                                                                 *)
(*                                                                         *)
(* Python strings are sequences of one-character strings, so that the      *)
(* regular-expression substitution, str.lower, ''.join and the `in` test   *)
(* on strings are computed character by character.  Python dictionaries    *)
(* are functions; a dictionary whose iteration order matters (vars(server),*)
(* server.metadata, server.addresses) is the sequence of its items in      *)
(* iteration order.                                                        *)
(***************************************************************************)
EXTENDS Integers, Sequences, FiniteSets, TLC

VARIABLES
    sys_argv,        \* sys.argv, the program name first
    servers,         \* what client.servers.list() returns, in adapter order
    prefer_private,  \* the module global read by get_ips
    pc,              \* where the script is
    idx,             \* the position of the running for loop in servers
    groups,          \* list mode's groups dictionary
    results,         \* host mode's results dictionary
    stdout,          \* what has been printed
    exited,          \* whether the process has ended
    exit_code,       \* its exit status, once exited
    arg,             \* the argument of a helper called on its own
    ret              \* and what it returned

vars == <<sys_argv, servers, prefer_private, pc, idx, groups, results,
          stdout, exited, exit_code, arg, ret>>

-----------------------------------------------------------------------------
(* Characters and strings *)

UpperSeq == <<"A","B","C","D","E","F","G","H","I","J","K","L","M",
              "N","O","P","Q","R","S","T","U","V","W","X","Y","Z">>
LowerSeq == <<"a","b","c","d","e","f","g","h","i","j","k","l","m",
              "n","o","p","q","r","s","t","u","v","w","x","y","z">>
Upper  == {UpperSeq[k] : k \in DOMAIN UpperSeq}
Lower  == {LowerSeq[k] : k \in DOMAIN LowerSeq}
Digits == {"0","1","2","3","4","5","6","7","8","9"}

\* Python's None: a token that is no string of characters.
None == <<"None">>

\* bool(x) for x a string or None.
Truthy(x) == x # None /\ x # <<>>

\* ''.join(parts)
RECURSIVE Join(_)
Join(parts) ==
    IF parts = <<>> THEN <<>> ELSE Head(parts) \o Join(Tail(parts))

\* needle in haystack, for two strings: the substring test.
StrIn(needle, haystack) ==
    \E k \in 0..(Len(haystack) - Len(needle)) :
        SubSeq(haystack, k + 1, k + Len(needle)) = needle

\* c.lower() for one character.
LowerChar(c) ==
    IF c \in Upper
    THEN LowerSeq[CHOOSE k \in DOMAIN UpperSeq : UpperSeq[k] = c]
    ELSE c

\* word.lower()
lower(word) == [k \in 1..Len(word) |-> LowerChar(word[k])]

\* The characters the class [^A-Za-z0-9\-] does not match.
KeptClass == Upper \cup Lower \cup Digits \cup {"-"}

\* re.sub(r"[^A-Za-z0-9\-]", "_", word)
re_sub(word) ==
    [k \in 1..Len(word) |-> IF word[k] \in KeptClass THEN word[k] ELSE "_"]

\* to_safe with the class not negated: [A-Za-z0-9\-] instead of [^A-Za-z0-9\-].
to_safe_unnegated(word) ==
    [k \in 1..Len(word) |-> IF word[k] \in KeptClass THEN "_" ELSE word[k]]

\* to_safe(word)
to_safe(word) == re_sub(word)

\* d[k] = v on a dictionary.
DictPut(d, k, v) ==
    [x \in (DOMAIN d) \cup {k} |-> IF x = k THEN v ELSE d[x]]

\* The string literals of the script.
S_list      == <<"-","-","l","i","s","t">>
S_host      == <<"-","-","h","o","s","t">>
S_meta      == <<"_","m","e","t","a">>
S_undefined == <<"u","n","d","e","f","i","n","e","d">>
S_group     == <<"g","r","o","u","p">>
S_tag       == <<"t","a","g","_">>
S_os        == <<"o","s","_">>
S_os_manager == <<"o","s","_","m","a","n","a","g","e","r">>
S_manager   == <<"m","a","n","a","g","e","r">>
S_name      == <<"n","a","m","e">>
S_addresses == <<"a","d","d","r","e","s","s","e","s">>
S_accessIPv4 == <<"a","c","c","e","s","s","I","P","v","4">>
S_metadata  == <<"m","e","t","a","d","a","t","a">>

-----------------------------------------------------------------------------
(* Server records.  A server is vars(server): the sequence of its          *)
(* (attribute name, value) items, with distinct names, in iteration order. *)

\* hasattr(server, key)
hasattr(server, key) == \E k \in DOMAIN server : server[k][1] = key

\* getattr(server, key)
getattr(server, key) ==
    server[CHOOSE k \in DOMAIN server : server[k][1] = key][2]

\* A server as novaclient builds it from the API's answer.
Server(name, accessIPv4, addresses, metadata) ==
    << <<S_manager, <<"ServerManager">> >>,
       <<S_name, name>>,
       <<S_accessIPv4, accessIPv4>>,
       <<S_addresses, addresses>>,
       <<S_metadata, metadata>> >>

\* address.get('OS-EXT-IPS:type', False) == tag, for an address entry: a
\* record with an addr field and, when the API gave one, a type field.
TypeIs(address, tag) == "type" \in DOMAIN address /\ address.type = tag

\* The for loops of get_ips: the addr of every entry of every network whose
\* type is tag, in iteration order.
RECURSIVE Collect(_, _)
Collect(networks, tag) ==
    IF networks = <<>> THEN <<>>
    ELSE LET network == Head(networks)
             picked  == SelectSeq(network, LAMBDA a : TypeIs(a, tag))
         IN  [k \in 1..Len(picked) |-> picked[k].addr]
             \o Collect(Tail(networks), tag)

\* get_ips that never reads prefer_private.
get_ips_no_prefer(server) ==
    LET addresses == IF hasattr(server, S_addresses)
                     THEN getattr(server, S_addresses) ELSE <<>>
        private == Collect(addresses, "fixed")
        public  == Collect(addresses, "floating")
        a1 == IF Truthy(getattr(server, S_accessIPv4))
              THEN getattr(server, S_accessIPv4) ELSE None
        a2 == IF (~Truthy(a1)) /\ public # <<>>
              THEN Join(public) ELSE a1
        a3 == IF private # <<>> /\ ~Truthy(a2) THEN Join(private) ELSE a2
    IN  a3

\* get_ips(server) with access_ip left True: the preferred access address.
get_ips(server) ==
    LET addresses == IF hasattr(server, S_addresses)
                     THEN getattr(server, S_addresses) ELSE <<>>
        private == Collect(addresses, "fixed")
        public  == Collect(addresses, "floating")
        a1 == IF Truthy(getattr(server, S_accessIPv4))
              THEN getattr(server, S_accessIPv4) ELSE None
        a2 == IF (~Truthy(a1)) /\ public # <<>>
                 /\ ~(private # <<>> /\ prefer_private)
              THEN Join(public) ELSE a1
        a3 == IF private # <<>> /\ ~Truthy(a2) THEN Join(private) ELSE a2
    IN  a3

\* The for loop of get_metadata over vars(server), from item k on.
RECURSIVE FlattenFrom(_, _, _)
FlattenFrom(server, k, res) ==
    IF k > Len(server) THEN res
    ELSE LET key == S_os \o lower(re_sub(server[k][1]))
         IN  FlattenFrom(server, k + 1,
                 IF key # S_os_manager
                 THEN DictPut(res, key, server[k][2]) ELSE res)

\* get_metadata without the test that excludes the manager.
get_metadata_keep_manager(server) ==
    LET Keep[k \in 0..Len(server)] ==
            IF k = 0 THEN <<>>
            ELSE DictPut(Keep[k - 1],
                         S_os \o lower(re_sub(server[k][1])), server[k][2])
    IN  Keep[Len(server)]

\* get_metadata(server).  Its first statement, get_ips(server, False), builds
\* a list that is dropped; it reads server.accessIPv4, which every server has.
get_metadata(server) == FlattenFrom(server, 1, <<>>)

\* Whether data[key] has an append method: groups starts as
\* {'_meta': {'hostvars': {}}} and every other value is a list push made.
HasAppend(data, key) == key # S_meta

\* push without its first test, on falsy elements and keys.
push_no_guard(data, key, element) ==
    IF key \in DOMAIN data
    THEN IF HasAppend(data, key)
         THEN [raised |-> FALSE,
               data |-> DictPut(data, key, Append(data[key], element))]
         ELSE [raised |-> TRUE, data |-> data]
    ELSE [raised |-> FALSE, data |-> DictPut(data, key, <<element>>)]

\* push(data, key, element): the dictionary afterwards, and whether
\* data[key].append raised AttributeError.
push(data, key, element) ==
    IF (~Truthy(element)) \/ (~Truthy(key))
    THEN [raised |-> FALSE, data |-> data]
    ELSE IF key \in DOMAIN data
         THEN IF HasAppend(data, key)
              THEN [raised |-> FALSE,
                    data |-> DictPut(data, key, Append(data[key], element))]
              ELSE [raised |-> TRUE, data |-> data]
         ELSE [raised |-> FALSE, data |-> DictPut(data, key, <<element>>)]


-----------------------------------------------------------------------------
(* Bounds and the inputs drawn within them *)

MaxServers == 2   \* servers the adapter returns
MaxArgs    == 3   \* command-line arguments after the program name
MaxWordLen == 3   \* characters of a word given to to_safe
MaxEntries == 3   \* address entries of one server
MaxAttrs   == 2   \* attributes of a server besides accessIPv4

\* All sequences over S of length at most n.
SeqsUpTo(S, n) == UNION {[1..k -> S] : k \in 0..n}

\* Whether the items of a sequence of (key, value) items have distinct keys.
DistinctKeys(items) ==
    \A j, k \in DOMAIN items : items[j][1] = items[k][1] => j = k

S_prog == <<"n","o","v","a",".","p","y">>

\* --- the script as a whole
MainArgs    == {S_list, S_host, <<"1">>}
MainServers == {Server(name, <<"1">>, <<>>, <<>>) : name \in {<<"a">>, S_meta}}

\* --- list mode
ListNames     == {<<"a">>, S_meta}
ListAccess    == {<<>>, <<"1">>}
ListAddresses == {<<>>, << << [addr |-> <<"2">>, type |-> "fixed"] >> >>}
ListMetadata  ==
    { <<>>,
      << <<S_group, <<"a">> >> >>,
      << <<S_group, S_meta>> >>,
      << <<S_group, <<>> >> >>,
      << << <<"k",".">>, <<"v">> >>, << <<"k",":">>, <<"v">> >> >> }
ListServers ==
    {Server(name, access, addresses, metadata) :
        name \in ListNames, access \in ListAccess,
        addresses \in ListAddresses, metadata \in ListMetadata}

\* --- host mode
HostAccess  == {<<>>, <<"1">>, <<"1","2">>}
HostServers == {Server(name, access, <<>>, <<>>) :
                    name \in {<<"a">>, <<"b">>}, access \in HostAccess}
HostArgs    == {<<"1">>, <<"2">>, <<"1","2">>}

\* --- to_safe
Alphabet == {"a", "Z", "0", "-", "_", ".", ":", " "}
Words    == SeqsUpTo(Alphabet, MaxWordLen)

\* --- get_ips
IpsEntries ==
    { [addr |-> <<"1">>, type |-> "fixed"],
      [addr |-> <<"2">>, type |-> "fixed"],
      [addr |-> <<"3">>, type |-> "floating"],
      [addr |-> <<"4">>, type |-> "floating"],
      [addr |-> <<"5">>, type |-> "other"],
      [addr |-> <<"6">>] }
\* One network, or the same entries split over two.
IpsAddresses ==
    {<<>>}
    \cup {<<n>> : n \in SeqsUpTo(IpsEntries, MaxEntries)}
    \cup UNION { {<<SubSeq(n, 1, j), SubSeq(n, j + 1, Len(n))>> :
                     j \in 0..Len(n)} : n \in SeqsUpTo(IpsEntries, MaxEntries) }
IpsAccess  == {None, <<>>, <<"9">>}
IpsServers == {Server(<<"n">>, access, addresses, <<>>) :
                  access \in IpsAccess, addresses \in IpsAddresses}

\* --- get_metadata
S_vm_state == <<"O","S","-","E","X","T","-","S","T","S",":",
                "v","m","_","s","t","a","t","e">>
AttrKeys   == { S_manager, S_name, S_vm_state,
                <<"a",":","b">>, <<"a","_","b">>, <<"_","i","n","f","o">> }
AttrItems  == {<<key, value>> : key \in AttrKeys, value \in {<<"x">>, <<"y">>}}
\* The other attributes, with accessIPv4 (which get_ips reads) at any place.
MetaServers ==
    UNION { { SubSeq(extra, 1, j) \o << <<S_accessIPv4, <<>> >> >>
                  \o SubSeq(extra, j + 1, Len(extra)) : j \in 0..Len(extra) } :
            extra \in {e \in SeqsUpTo(AttrItems, MaxAttrs) : DistinctKeys(e)} }

-----------------------------------------------------------------------------
(* The script *)

\* The state common to every start: nothing run yet.
Fresh ==
    /\ idx = 0
    /\ groups = <<>>
    /\ results = <<>>
    /\ stdout = <<>>
    /\ exited = FALSE
    /\ exit_code = 0
    /\ ret = None

\* The script started with any argument vector.
Init ==
    /\ sys_argv \in {<<S_prog>> \o a : a \in SeqsUpTo(MainArgs, MaxArgs)}
    /\ servers \in SeqsUpTo(MainServers, MaxServers)
    /\ prefer_private \in BOOLEAN
    /\ pc = "start"
    /\ arg = None
    /\ Fresh

\* The script started with --list.
InitList ==
    /\ sys_argv = <<S_prog, S_list>>
    /\ servers \in SeqsUpTo(ListServers, MaxServers)
    /\ prefer_private = FALSE
    /\ pc = "start"
    /\ arg = None
    /\ Fresh

\* The script started in host mode.
InitHost ==
    /\ sys_argv \in {<<S_prog, S_host, a>> : a \in HostArgs}
    /\ servers \in SeqsUpTo(HostServers, MaxServers)
    /\ prefer_private = FALSE
    /\ pc = "start"
    /\ arg = None
    /\ Fresh

\* The first condition of the dispatch.
IsListArgv ==
    (Len(sys_argv) = 2 /\ sys_argv[2] = S_list) \/ Len(sys_argv) = 1

\* The elif condition.
IsHostArgv == Len(sys_argv) = 3 /\ sys_argv[2] = S_host

\* The keys list mode pushes a server's address to, in the order of the
\* pushes: the name, one tag per metadata item, the group.
PushKeys(server) ==
    LET metadata == getattr(server, S_metadata)
        tags == [k \in 1..Len(metadata) |->
                    to_safe(S_tag \o metadata[k][1] \o <<"_">> \o metadata[k][2])]
        has_group == \E k \in DOMAIN metadata : metadata[k][1] = S_group
        group == IF has_group
                 THEN metadata[CHOOSE k \in DOMAIN metadata :
                                   metadata[k][1] = S_group][2]
                 ELSE S_undefined
    IN  <<getattr(server, S_name)>> \o tags \o <<group>>

\* PushAll that pushes an address to a group once only.
PushAll_once(data, keys, element) ==
    LET Seen(k) == \E j \in 1..(k - 1) : keys[j] = keys[k]
        Go[k \in 0..Len(keys)] ==
            IF k = 0 THEN [raised |-> FALSE, data |-> data]
            ELSE IF Go[k - 1].raised \/ Seen(k) THEN Go[k - 1]
            ELSE push(Go[k - 1].data, keys[k], element)
    IN  Go[Len(keys)]

\* The pushes of one pass of list mode's loop, in order, up to the first
\* that raises.
RECURSIVE PushAll(_, _, _)
PushAll(data, keys, element) ==
    IF keys = <<>> THEN [raised |-> FALSE, data |-> data]
    ELSE LET r == push(data, Head(keys), element)
         IN  IF r.raised THEN r ELSE PushAll(r.data, Tail(keys), element)

\* if ... '--list' or no argument: groups = {'_meta': {'hostvars': {}}}
DispatchList ==
    /\ pc = "start"
    /\ IsListArgv
    /\ groups' = (S_meta :> [hostvars |-> <<>>])
    /\ idx' = 1
    /\ pc' = "list"
    /\ UNCHANGED <<sys_argv, servers, prefer_private, results, stdout,
                   exited, exit_code, arg, ret>>

\* ListStep that keeps the hostvars entry an address already has.
ListStep_keep_first ==
    /\ pc = "list"
    /\ idx <= Len(servers)
    /\ LET server    == servers[idx]
           access_ip == get_ips(server)
           r         == PushAll(groups, PushKeys(server), access_ip)
       IN  /\ ~r.raised
           /\ groups' = [r.data EXCEPT ![S_meta].hostvars =
                            IF access_ip \in DOMAIN @ THEN @
                            ELSE DictPut(@, access_ip, get_metadata(server))]
    /\ idx' = idx + 1
    /\ UNCHANGED <<sys_argv, servers, prefer_private, pc, results, stdout,
                   exited, exit_code, arg, ret>>

\* One pass of list mode's loop that raises nothing.
ListStep ==
    /\ pc = "list"
    /\ idx <= Len(servers)
    /\ LET server    == servers[idx]
           access_ip == get_ips(server)
           r         == PushAll(groups, PushKeys(server), access_ip)
       IN  /\ ~r.raised
           /\ groups' = [r.data EXCEPT ![S_meta].hostvars =
                            DictPut(@, access_ip, get_metadata(server))]
    /\ idx' = idx + 1
    /\ UNCHANGED <<sys_argv, servers, prefer_private, pc, results, stdout,
                   exited, exit_code, arg, ret>>

\* One pass of list mode's loop in which a push raises AttributeError: the
\* interpreter prints the traceback to stderr and exits with status 1.
ListRaise ==
    /\ pc = "list"
    /\ idx <= Len(servers)
    /\ LET server    == servers[idx]
           access_ip == get_ips(server)
           r         == PushAll(groups, PushKeys(server), access_ip)
       IN  /\ r.raised
           /\ groups' = r.data
    /\ pc' = "raised"
    /\ exited' = TRUE
    /\ exit_code' = 1
    /\ UNCHANGED <<sys_argv, servers, prefer_private, idx, results, stdout,
                   arg, ret>>

\* print(json.dumps(groups, ...)); sys.exit(0)
ListPrint ==
    /\ pc = "list"
    /\ idx > Len(servers)
    /\ stdout' = Append(stdout, [kind |-> "json", doc |-> groups])
    /\ pc' = "exit"
    /\ exited' = TRUE
    /\ exit_code' = 0
    /\ UNCHANGED <<sys_argv, servers, prefer_private, idx, groups, results,
                   arg, ret>>

\* elif ... '--host': results = {}
DispatchHost ==
    /\ pc = "start"
    /\ ~IsListArgv
    /\ IsHostArgv
    /\ results' = <<>>
    /\ idx' = 1
    /\ pc' = "host"
    /\ UNCHANGED <<sys_argv, servers, prefer_private, groups, stdout,
                   exited, exit_code, arg, ret>>

\* One pass of host mode's loop.
HostStep ==
    /\ pc = "host"
    /\ idx <= Len(servers)
    /\ LET server == servers[idx]
           ips    == get_ips(server)
       IN  results' = IF Truthy(ips) /\ StrIn(sys_argv[3], ips)
                      THEN get_metadata(server) ELSE results
    /\ idx' = idx + 1
    /\ UNCHANGED <<sys_argv, servers, prefer_private, pc, groups, stdout,
                   exited, exit_code, arg, ret>>

\* print(json.dumps(results, ...)); sys.exit(0)
HostPrint ==
    /\ pc = "host"
    /\ idx > Len(servers)
    /\ stdout' = Append(stdout, [kind |-> "json", doc |-> results])
    /\ pc' = "exit"
    /\ exited' = TRUE
    /\ exit_code' = 0
    /\ UNCHANGED <<sys_argv, servers, prefer_private, idx, groups, results,
                   arg, ret>>

\* else: print "usage: ..."; sys.exit(1)
Usage ==
    /\ pc = "start"
    /\ ~IsListArgv
    /\ ~IsHostArgv
    /\ stdout' = Append(stdout, [kind |-> "usage"])
    /\ pc' = "exit"
    /\ exited' = TRUE
    /\ exit_code' = 1
    /\ UNCHANGED <<sys_argv, servers, prefer_private, idx, groups, results,
                   arg, ret>>

Next ==
    \/ DispatchList
    \/ ListStep
    \/ ListRaise
    \/ ListPrint
    \/ DispatchHost
    \/ HostStep
    \/ HostPrint
    \/ Usage

Spec == Init /\ [][Next]_vars

NextList == DispatchList \/ ListStep \/ ListRaise \/ ListPrint

SpecList == InitList /\ [][NextList]_vars

NextHost == DispatchHost \/ HostStep \/ HostPrint

SpecHost == InitHost /\ [][NextHost]_vars

-----------------------------------------------------------------------------
(* The helpers called on their own *)

\* The state before a helper is called on arg.
InitCall(name, args) ==
    /\ sys_argv = <<S_prog>>
    /\ servers = <<>>
    /\ pc = name
    /\ arg \in args
    /\ Fresh

InitSafe == InitCall("to_safe", Words) /\ prefer_private = FALSE

CallToSafe ==
    /\ pc = "to_safe"
    /\ ret' = to_safe(arg)
    /\ pc' = "returned"
    /\ UNCHANGED <<sys_argv, servers, prefer_private, idx, groups, results,
                   stdout, exited, exit_code, arg>>

SpecSafe == InitSafe /\ [][CallToSafe]_vars

InitIps == InitCall("get_ips", IpsServers) /\ prefer_private \in BOOLEAN

CallGetIps ==
    /\ pc = "get_ips"
    /\ ret' = get_ips(arg)
    /\ pc' = "returned"
    /\ UNCHANGED <<sys_argv, servers, prefer_private, idx, groups, results,
                   stdout, exited, exit_code, arg>>

SpecIps == InitIps /\ [][CallGetIps]_vars

InitMeta == InitCall("get_metadata", MetaServers) /\ prefer_private = FALSE

CallGetMetadata ==
    /\ pc = "get_metadata"
    /\ ret' = get_metadata(arg)
    /\ pc' = "returned"
    /\ UNCHANGED <<sys_argv, servers, prefer_private, idx, groups, results,
                   stdout, exited, exit_code, arg>>

SpecMeta == InitMeta /\ [][CallGetMetadata]_vars

-----------------------------------------------------------------------------
(* Properties of the helpers *)

\* The characters a sanitized word may hold: [A-Za-z0-9-] and "_".
SafeChars == Upper \cup Lower \cup Digits \cup {"-", "_"}

\* C9: for every string s, to_safe(s) has the length of s, holds only
\* characters of [A-Za-z0-9-] and "_", and to_safe(to_safe(s)) = to_safe(s).
C9_ToSafe ==
    pc = "returned" =>
        /\ Len(ret) = Len(arg)
        /\ \A k \in DOMAIN ret : ret[k] \in SafeChars
        /\ to_safe(ret) = ret

\* to_safe has returned for a word with characters it keeps and characters
\* it replaces.
C9_Witness ==
    /\ pc = "returned"
    /\ arg = <<"Z", ".", "-">>
    /\ ret = <<"Z", "_", "-">>

\* The addr of every address entry of a server whose type tag is tag, in
\* iteration order.
AddrsOfType(server, tag) ==
    LET entries == Join(getattr(server, S_addresses))
        tagged  == SelectSeq(entries,
                       LAMBDA a : "type" \in DOMAIN a /\ a.type = tag)
    IN  [k \in 1..Len(tagged) |-> tagged[k].addr]

\* The access address by the precedence accessIPv4, floating, fixed.
AccessByPrecedence(server) ==
    LET access   == getattr(server, S_accessIPv4)
        fixed    == AddrsOfType(server, "fixed")
        floating == AddrsOfType(server, "floating")
    IN  IF access # None /\ access # <<>> THEN access
        ELSE IF floating # <<>> /\ ~(fixed # <<>> /\ prefer_private)
             THEN Join(floating)
        ELSE IF fixed # <<>> THEN Join(fixed)
        ELSE None

\* A server without the address entries that are neither fixed nor floating.
WithoutOtherTypes(server) ==
    LET Known(a) == "type" \in DOMAIN a /\ a.type \in {"fixed", "floating"}
        addresses == getattr(server, S_addresses)
    IN  Server(getattr(server, S_name), getattr(server, S_accessIPv4),
               [n \in DOMAIN addresses |-> SelectSeq(addresses[n], Known)],
               getattr(server, S_metadata))

\* C1: get_ips(server) is accessIPv4 when that is non-empty; else the floating
\* addresses joined, when there is one and not (there is a fixed one and
\* prefer_private); else the fixed addresses joined, when there is one; else
\* None.  Entries of any other type do not change it.
C1_GetIps ==
    pc = "returned" =>
        /\ ret = AccessByPrecedence(arg)
        /\ ret = AccessByPrecedence(WithoutOtherTypes(arg))

\* get_ips has returned the two fixed addresses of a server joined, though it
\* has a floating one too, because prefer_private is set.
C1_Witness ==
    /\ pc = "returned"
    /\ prefer_private
    /\ getattr(arg, S_accessIPv4) = <<>>
    /\ AddrsOfType(arg, "fixed") = << <<"2">>, <<"1">> >>
    /\ AddrsOfType(arg, "floating") # <<>>
    /\ ret = <<"2", "1">>

\* A key in lowercase with every non-alphanumeric character made "_", after
\* the prefix os_.
AlnumKey(key) ==
    S_os \o [k \in 1..Len(key) |->
                IF key[k] \in Upper \cup Lower \cup Digits
                THEN LowerChar(key[k]) ELSE "_"]

\* The same with the hyphen kept as well.
HyphenKey(key) ==
    S_os \o [k \in 1..Len(key) |->
                IF key[k] \in Upper \cup Lower \cup Digits \cup {"-"}
                THEN LowerChar(key[k]) ELSE "_"]

\* C7 as stated: get_metadata drops exactly the manager attribute and maps
\* every other attribute to 'os_' + lowercase(key with every non-alphanumeric
\* character replaced by '_'), its value unchanged: one key per non-manager
\* attribute.
C7_AsStated ==
    pc = "returned" =>
        LET kept == {k \in DOMAIN arg : arg[k][1] # S_manager}
        IN  /\ DOMAIN ret = {AlnumKey(arg[k][1]) : k \in kept}
            /\ \A k \in kept : ret[AlnumKey(arg[k][1])] = arg[k][2]
            /\ Cardinality(DOMAIN ret) = Cardinality(kept)

\* C7, amended: get_metadata drops every attribute whose flattened key is
\* 'os_manager' and maps every other attribute to 'os_' + lowercase(key with
\* every character outside [A-Za-z0-9-] replaced by '_'): the hyphen is kept.
\* The value is that of the last attribute, in iteration order, with that
\* flattened key: one key per distinct flattened key.
C7_GetMetadata ==
    pc = "returned" =>
        LET kept == {k \in DOMAIN arg : HyphenKey(arg[k][1]) # S_os_manager}
            Last(key) == CHOOSE k \in kept :
                            /\ HyphenKey(arg[k][1]) = key
                            /\ \A j \in kept :
                                   HyphenKey(arg[j][1]) = key => j <= k
        IN  /\ DOMAIN ret = {HyphenKey(arg[k][1]) : k \in kept}
            /\ \A key \in DOMAIN ret : ret[key] = arg[Last(key)][2]

\* get_metadata has returned for a server with the manager and the attribute
\* OS-EXT-STS:vm_state: the manager is gone, the hyphens are kept.
C7_Witness ==
    /\ pc = "returned"
    /\ hasattr(arg, S_manager)
    /\ hasattr(arg, S_vm_state)
    /\ DOMAIN ret = { <<"o","s","_","o","s","-","e","x","t","-","s","t","s",
                        "_","v","m","_","s","t","a","t","e">>,
                      <<"o","s","_","a","c","c","e","s","s","i","p","v","4">> }

-----------------------------------------------------------------------------
(* Properties of list mode *)

\* Whether list mode stands between two passes of its loop or has printed.
BetweenPasses == pc = "list" \/ (pc = "exit" /\ IsListArgv)

\* The servers whose pass of the loop is over.
Processed == 1..(idx - 1)

\* Whether a server's access address is present.
Present(server) == get_ips(server) # None /\ get_ips(server) # <<>>

\* _meta.hostvars of groups.
Hostvars == groups[S_meta].hostvars

\* The group lists: the keys of groups besides _meta.
GroupNames == (DOMAIN groups) \ {S_meta}

\* The tag group of a metadata item: to_safe("tag_<key>_<value>").
TagGroup(item) == to_safe(S_tag \o item[1] \o <<"_">> \o item[2])

\* metadata['group'], or "undefined" without that key.
GroupGroup(server) ==
    LET metadata == getattr(server, S_metadata)
        at == {k \in DOMAIN metadata : metadata[k][1] = S_group}
    IN  IF at = {} THEN S_undefined ELSE metadata[CHOOSE k \in at : TRUE][2]

\* How many of a server's roles (its name, each metadata item, its group)
\* name the group g.
RoleCount(server, g) ==
    LET metadata == getattr(server, S_metadata)
    IN  (IF getattr(server, S_name) = g THEN 1 ELSE 0)
        + Cardinality({k \in DOMAIN metadata : TagGroup(metadata[k]) = g})
        + (IF GroupGroup(server) = g THEN 1 ELSE 0)

\* Every group some server names by a role, and every group there is.
AllGroups ==
    GroupNames \cup
    UNION { {getattr(servers[k], S_name), GroupGroup(servers[k])}
            \cup {TagGroup(getattr(servers[k], S_metadata)[j]) :
                     j \in DOMAIN getattr(servers[k], S_metadata)} :
            k \in DOMAIN servers }

\* How many entries of the group list g are the address a.
Occurrences(a, g) ==
    IF g \in GroupNames
    THEN Cardinality({k \in DOMAIN groups[g] : groups[g][k] = a})
    ELSE 0

\* The sum of Count(k) over the servers 1..n whose access address is a.
SumOver(n, a, Count(_)) ==
    LET Total[k \in 0..n] ==
            IF k = 0 THEN 0
            ELSE Total[k - 1]
                 + (IF get_ips(servers[k]) = a THEN Count(k) ELSE 0)
    IN  Total[n]

\* C3 as stated: after list mode has processed the servers, every server has
\* contributed exactly one entry to the group of its name, one to the tag
\* group of each of its metadata items and one to its group-group.
C3_AsStated ==
    (pc = "exit" /\ IsListArgv) =>
        \A k \in DOMAIN servers : \A g \in AllGroups :
            Occurrences(get_ips(servers[k]), g) =
                SumOver(Len(servers), get_ips(servers[k]),
                        LAMBDA j : RoleCount(servers[j], g))

\* C3, amended: between any two passes of list mode's loop and at its end,
\* every server processed whose access address is present has contributed
\* exactly one entry for each of its roles (its name, each metadata item's tag
\* group, its group-group) whose group name is not empty, and a server whose
\* access address is absent has contributed none: the entries of a group that
\* are a given address are as many as those roles of the servers processed.
C3_Contributions ==
    BetweenPasses =>
        \A g \in AllGroups :
            \A a \in {get_ips(servers[k]) : k \in Processed}
                     \cup UNION {{groups[h][k] : k \in DOMAIN groups[h]} :
                                    h \in GroupNames} :
                Occurrences(a, g) =
                    SumOver(idx - 1, a,
                            LAMBDA j : IF Present(servers[j]) /\ g # <<>>
                                       THEN RoleCount(servers[j], g) ELSE 0)

\* List mode has ended on two servers: the first, with an address, has two
\* metadata items of one tag group and so two entries in it; the second,
\* without an address, has none in the groups of its name and its group.
C3_Witness ==
    /\ pc = "exit"
    /\ IsListArgv
    /\ Len(servers) = 2
    /\ get_ips(servers[1]) = <<"1">>
    /\ get_ips(servers[2]) = None
    /\ getattr(servers[1], S_name) = <<"a">>
    /\ getattr(servers[2], S_name) = <<"a">>
    /\ GroupGroup(servers[2]) = <<"a">>
    /\ DOMAIN groups = {S_meta, <<"a">>, S_undefined,
                        <<"t","a","g","_","k","_","_","v">>}
    /\ groups[<<"a">>] = << <<"1">> >>
    /\ groups[<<"t","a","g","_","k","_","_","v">>] = << <<"1">>, <<"1">> >>

\* C10: between any two passes of list mode's loop and at its end, every
\* address in a group list is a key of _meta.hostvars, and the hostvars entry
\* of an address is the flattened metadata of the last server processed so
\* far whose access address it is.
C10_HostvarsCoverGroups ==
    BetweenPasses =>
        /\ \A g \in GroupNames : \A k \in DOMAIN groups[g] :
               groups[g][k] \in DOMAIN Hostvars
        /\ \A a \in DOMAIN Hostvars :
               LET of == {k \in Processed : get_ips(servers[k]) = a}
               IN  /\ of # {}
                   /\ \E k \in of :
                          /\ \A j \in of : j <= k
                          /\ Hostvars[a] = get_metadata(servers[k])

\* List mode has ended on two servers of different metadata and one address:
\* the address is in the group lists and its hostvars are the second's.
C10_Witness ==
    /\ pc = "exit"
    /\ IsListArgv
    /\ Len(servers) = 2
    /\ get_ips(servers[1]) = <<"1">>
    /\ get_ips(servers[2]) = <<"1">>
    /\ getattr(servers[1], S_metadata) = <<>>
    /\ getattr(servers[2], S_metadata) # <<>>
    /\ groups[<<"a">>] = << <<"1">>, <<"1">>, <<"1">> >>
    /\ Hostvars[<<"1">>] = get_metadata(servers[2])
    /\ Hostvars[<<"1">>] # get_metadata(servers[1])

\* A server without addresses and without accessIPv4.
NoAddress(server) ==
    /\ getattr(server, S_addresses) = <<>>
    /\ getattr(server, S_accessIPv4) \in {None, <<>>}

\* C5: the pass of list mode's loop over a server with no addresses and no
\* accessIPv4, whose access address is absent, raises nothing, leaves every
\* group list as it is, creates no group, and sets the hostvars entry of the
\* absent key to the server's flattened metadata, whatever it was.
C5_AbsentAddress ==
    [][ (pc = "list" /\ idx <= Len(servers) /\ NoAddress(servers[idx])) =>
            /\ get_ips(servers[idx]) = None
            /\ pc' = "list"
            /\ idx' = idx + 1
            /\ DOMAIN groups' = DOMAIN groups
            /\ \A g \in GroupNames : groups'[g] = groups[g]
            /\ DOMAIN groups'[S_meta].hostvars = (DOMAIN Hostvars) \cup {None}
            /\ groups'[S_meta].hostvars[None] = get_metadata(servers[idx])
            /\ \A a \in (DOMAIN Hostvars) \ {None} :
                   groups'[S_meta].hostvars[a] = Hostvars[a] ]_vars

\* List mode has ended on two servers without address, the second named
\* _meta: there is no group, and the hostvars of the absent key are the
\* second's.
C5_Witness ==
    /\ pc = "exit"
    /\ IsListArgv
    /\ Len(servers) = 2
    /\ NoAddress(servers[1])
    /\ NoAddress(servers[2])
    /\ getattr(servers[1], S_name) = <<"a">>
    /\ getattr(servers[2], S_name) = S_meta
    /\ GroupNames = {}
    /\ DOMAIN Hostvars = {None}
    /\ Hostvars[None] = get_metadata(servers[2])

\* The flattened metadata hostvars is meant to hold: for every access address
\* of a server, that of the last server with the address.
HostvarsOfAll ==
    LET LastAt(a) == CHOOSE k \in DOMAIN servers :
                        /\ get_ips(servers[k]) = a
                        /\ \A j \in DOMAIN servers :
                               get_ips(servers[j]) = a => j <= k
    IN  [a \in {get_ips(servers[k]) : k \in DOMAIN servers} |->
            get_metadata(servers[LastAt(a)])]

\* C4 as stated: whatever the servers' names, tags and groups, list mode ends
\* with exit status 0 and a document whose _meta entry is a mapping with the
\* hostvars of every access address: no push alters it or fails on it.
C4_AsStated ==
    (exited /\ IsListArgv) =>
        /\ exit_code = 0
        /\ stdout = <<[kind |-> "json", doc |-> groups]>>
        /\ S_meta \in DOMAIN groups
        /\ DOMAIN groups[S_meta] = {"hostvars"}
        /\ DOMAIN Hostvars = DOMAIN HostvarsOfAll
        /\ \A a \in DOMAIN Hostvars : Hostvars[a] = HostvarsOfAll[a]

\* The list a group is meant to hold: in adapter order, the address of every
\* server with a present address, once for each of its roles naming the group.
RECURSIVE PushesTo(_, _)
PushesTo(g, k) ==
    IF k > Len(servers) THEN <<>>
    ELSE (IF Present(servers[k])
          THEN [j \in 1..RoleCount(servers[k], g) |-> get_ips(servers[k])]
          ELSE <<>>)
         \o PushesTo(g, k + 1)

\* C6 as stated: list mode appends the address of every server with a present
\* address, in adapter order, to the group of its name, the tag group of each
\* metadata item and its group-group, and to no other: when it has ended each
\* group list is the sequence of these pushes.
C6_AsStated ==
    (exited /\ IsListArgv) =>
        \A g \in AllGroups :
            IF PushesTo(g, 1) = <<>> THEN g \notin GroupNames
            ELSE g \in GroupNames /\ groups[g] = PushesTo(g, 1)

-----------------------------------------------------------------------------
(* Properties of host mode and of the dispatch *)

\* C2 as stated: host mode prints the flattened metadata of the first server,
\* in adapter order, whose access address equals the argument, or the empty
\* document when there is none, and exits with status 0.
C2_AsStated ==
    (exited /\ IsHostArgv) =>
        LET equal == {k \in DOMAIN servers : get_ips(servers[k]) = sys_argv[3]}
            first == CHOOSE k \in equal : \A j \in equal : k <= j
        IN  /\ exit_code = 0
            /\ Len(stdout) = 1
            /\ stdout[1].kind = "json"
            /\ IF equal = {} THEN DOMAIN stdout[1].doc = {}
               ELSE /\ DOMAIN stdout[1].doc = DOMAIN get_metadata(servers[first])
                    /\ \A key \in DOMAIN stdout[1].doc :
                           stdout[1].doc[key] = get_metadata(servers[first])[key]

\* The arguments after the program name.
Arguments == Tail(sys_argv)

\* C8 as stated: with no argument or the one argument --list the script runs
\* list mode and exits 0; with --host and one more argument it runs host mode
\* and exits 0; with any other arguments it prints the usage message, no
\* inventory document, and exits 1.
C8_AsStated ==
    exited =>
        /\ Len(stdout) = 1
        /\ IF Arguments = <<>> \/ Arguments = <<S_list>>
           THEN exit_code = 0 /\ stdout[1].kind = "json" /\ pc = "exit"
                /\ stdout[1].doc = groups
           ELSE IF Len(Arguments) = 2 /\ Arguments[1] = S_host
           THEN exit_code = 0 /\ stdout[1].kind = "json" /\ pc = "exit"
                /\ stdout[1].doc = results
           ELSE exit_code = 1 /\ stdout[1].kind = "usage"

====
